---- MODULE Spec2Model ----
(***************************************************************************)
(* Model of pyrogram/types/messages_and_media/story.py: the decoder        *)
(* Story._parse and the bound delivery shortcuts of Story.                 *)
(*                                                                         *)
(* Python values are records carrying a "type" field, so that None, ints,  *)
(* strings and objects can be compared with one another.                   *)
(***************************************************************************)
EXTENDS Integers, Sequences, FiniteSets, TLC

(* ------------------------------ bounds --------------------------------- *)
MaxEntities == 3   \* longest stories.entities list drawn
MaxAttrs == 2      \* longest doc.attributes list drawn
MaxId == 2         \* story / user / channel ids are drawn from 1..MaxId

(* --------------------------- Python values ----------------------------- *)
None == [type |-> "NoneType"]
PyInt(n) == [type |-> "int", val |-> n]
Str(s) == [type |-> "str", str |-> s]
True == [type |-> "bool", b |-> TRUE]
False == [type |-> "bool", b |-> FALSE]
EmptyTuple == [type |-> "tuple", len |-> 0]
Unbound == [type |-> "<unbound local>"]

\* Python truth value of the values that occur in conditions of story.py:
\* None, 0, "", () and empty lists are false; objects without __bool__ /
\* __len__ (User, Chat, raw media) are true.
Truthy(v) ==
    CASE v.type = "NoneType" -> FALSE
      [] v.type = "bool" -> v.b
      [] v.type = "int" -> v.val # 0
      [] v.type = "str" -> v.str # ""
      [] v.type = "tuple" -> v.len # 0
      [] v.type = "List" -> v.items # <<>>
      [] OTHER -> TRUE

Ids == 1..MaxId
User(i) == [type |-> "User", id |-> PyInt(i)]
Chat(i) == [type |-> "Chat", id |-> PyInt(i)]
Users == {User(i) : i \in Ids}
Chats == {Chat(i) : i \in Ids}

Clients == {"app1", "app2"}
\* client.me, the current identity of a started client
Me(client) == IF client = "app1" THEN User(1) ELSE User(2)

SeqsUpTo(S, n) == UNION {[1..k -> S] : k \in 0..n}

(* ------------------------- raw (wire) values --------------------------- *)
RawEntities ==
    { [type |-> "MessageEntityBold", offset |-> 0],
      [type |-> "MessageEntityItalic", offset |-> 4],
      [type |-> "MessageEntityUnknown", offset |-> 8] }

DocumentAttributes ==
    { [type |-> "DocumentAttributeAnimated"],
      [type |-> "DocumentAttributeVideo", duration |-> 3],
      [type |-> "DocumentAttributeFilename"] }

RawDocuments ==
    {None, [type |-> "DocumentEmpty"]}
    \cup {[type |-> "Document", attributes |-> a] :
             a \in SeqsUpTo(DocumentAttributes, MaxAttrs)}

TtlValues == {None, PyInt(5)}

RawMedia ==
    {None, [type |-> "MessageMediaGeo"]}
    \cup {[type |-> "MessageMediaPhoto", photo |-> [type |-> "Photo"],
           ttl_seconds |-> t] : t \in TtlValues}
    \cup {[type |-> "MessageMediaDocument", document |-> d, ttl_seconds |-> t] :
             d \in RawDocuments, t \in TtlValues}

\* The id and the scalar fields of a raw StoryItem, drawn together.
RawScalars ==
    { [id |-> PyInt(1), date |-> PyInt(100), expire_date |-> PyInt(200), noforwards |-> None,
       edited |-> True, pinned |-> None, public |-> True,
       close_friends |-> True, contacts |-> False, selected_contacts |-> None,
       caption |-> None, views |-> None],
      [id |-> PyInt(MaxId + 1), date |-> PyInt(300), expire_date |-> PyInt(400), noforwards |-> True,
       edited |-> None, pinned |-> False, public |-> True,
       close_friends |-> False, contacts |-> True, selected_contacts |-> None,
       caption |-> Str("hi"), views |-> [type |-> "raw.types.StoryViews", views_count |-> 7]] }

StoryItems ==
    {[type |-> "StoryItem", entities |-> e, media |-> m] @@ s :
        e \in SeqsUpTo(RawEntities, MaxEntities), m \in RawMedia, s \in RawScalars}

RawStories ==
    {[type |-> t, id |-> PyInt(i)] :
        t \in {"StoryItemSkipped", "StoryItemDeleted"}, i \in Ids}
    \cup StoryItems

Peers ==
    {[type |-> "PeerChannel", channel_id |-> PyInt(i)] : i \in Ids}
    \cup {[type |-> "PeerUser", user_id |-> PyInt(i)] : i \in Ids}
    \cup {[type |-> "InputPeerSelf"]}

\* Values the marker decoders hand back, and errors a collaborator may raise.
Markers ==
    {[type |-> t, id |-> PyInt(i)] : t \in {"StorySkipped", "StoryDeleted"}, i \in Ids}
Errors == {[type |-> "Exception", name |-> n] : n \in {"PeerIdInvalid", "TimeoutError"}}
UnboundLocalError == [type |-> "Exception", name |-> "UnboundLocalError"]
AttributeError == [type |-> "Exception", name |-> "AttributeError"]

(* ----------------------------- collaborators --------------------------- *)
\* types.MessageEntity._parse(client, entity, users): None for an entity it
\* cannot parse, else the parsed entity.
MessageEntity_parse(client, entity, users) ==
    IF entity.type = "MessageEntityUnknown" THEN None
    ELSE [type |-> "MessageEntity", kind |-> entity.type, offset |-> PyInt(entity.offset)]

Photo_parse(client, photo, ttl_seconds) ==
    [type |-> "Photo", photo |-> photo, ttl_seconds |-> ttl_seconds]

Animation_parse(client, doc, video_attributes, file_name) ==
    [type |-> "Animation", document |-> doc, video_attributes |-> video_attributes,
     file_name |-> file_name]

Video_parse(client, doc, video_attributes, file_name, ttl_seconds) ==
    [type |-> "Video", document |-> doc, video_attributes |-> video_attributes,
     file_name |-> file_name, ttl_seconds |-> ttl_seconds]

StoryViews_parse(views) ==
    IF views = None THEN None
    ELSE [type |-> "StoryViews", view_count |-> PyInt(views.views_count)]

\* utils.timestamp_to_datetime(ts)
timestamp_to_datetime(ts) ==
    IF Truthy(ts) THEN [type |-> "datetime", timestamp |-> ts.val] ELSE None

(* ------------------------------- state --------------------------------- *)
VARIABLES
    pc,        \* where the current Story._parse invocation stands
    frame,     \* its arguments: client, stories, peer
    locals,    \* its local variables (lines 149-155, 159-177)
    log,       \* collaborator calls it has issued, in order
    ret,       \* the value or error its last awaited collaborator delivered
    outcome,   \* what the invocation handed to its caller
    story,     \* the Story object the delivery shortcuts are called on
    spc,       \* where the current shortcut invocation stands
    sframe,    \* its method name and arguments
    slog,      \* client operations it has invoked, in order
    sret,      \* the value or error the client operation delivered
    sout,      \* what the shortcut handed to its caller
    parked,    \* the Story._parse invocation that is suspended or not running
    cur,       \* which of the two invocations pc, frame, ... describe
    overlap,   \* both invocations have been suspended at their await at once
    sparked    \* the shortcut invocation that is suspended or not running

dvars == <<pc, frame, locals, log, ret, outcome>>
svars == <<story, spc, sframe, slog, sret, sout>>
cvars == <<parked, cur, overlap, sparked>>
vars == <<pc, frame, locals, log, ret, outcome, story, spc, sframe, slog, sret, sout,
          parked, cur, overlap, sparked>>

NoFrame == [client |-> "", stories |-> None, peer |-> None]
NoLocals == [entities |-> Unbound, animation |-> Unbound, photo |-> Unbound,
             video |-> Unbound, from_user |-> Unbound, sender_chat |-> Unbound,
             media_type |-> Unbound]
NoOutcome == [kind |-> "none", value |-> None]
Return(v) == [kind |-> "return", value |-> v]
Raise(e) == [kind |-> "raise", value |-> e]

CallRec(fn, args) == [fn |-> fn, args |-> args]

(* --------------------------- Story.__init__ ---------------------------- *)
\* Object.__init__(client), reached by super().__init__(client) at line 117:
\* the value kept as self._client
Object_init(client) == client

StoryObject(client, id, from_user, sender_chat, date, expire_date, media, has_protected_content, animation, photo, video, edited, pinned, public, close_friends, contacts, selected_contacts, caption, caption_entities, views) ==
    [type |-> "Story", _client |-> Object_init(client), id |-> id, from_user |-> from_user,
     sender_chat |-> sender_chat, date |-> date, expire_date |-> expire_date,
     media |-> media, has_protected_content |-> has_protected_content,
     animation |-> animation, photo |-> photo, video |-> video,
     edited |-> edited, pinned |-> pinned, public |-> public,
     close_friends |-> close_friends, contacts |-> contacts,
     selected_contacts |-> selected_contacts, caption |-> caption,
     caption_entities |-> caption_entities, views |-> views]

(* ------------------------- Story._parse, pieces ------------------------ *)
FilterNotNone_keepAll(seq) == seq

\* lines 149-150: parse every raw entity, keep those that are not None
FilterNotNone(seq) == SelectSeq(seq, LAMBDA x : x # None)

ParseEntities(client, stories) ==
    LET parsed == [i \in DOMAIN stories.entities |->
                      MessageEntity_parse(client, stories.entities[i], <<>>)]
    IN [type |-> "List", items |-> FilterNotNone(parsed)]

EntityCalls(client, stories) ==
    [i \in DOMAIN stories.entities |->
        CallRec("MessageEntity._parse", <<client, stories.entities[i]>>)]

\* line 164: {type(i): i for i in doc.attributes}; a later attribute of a
\* type replaces an earlier one
AttributeDict(attributes) ==
    [t \in {attributes[i].type : i \in DOMAIN attributes} |->
        LET last == CHOOSE i \in DOMAIN attributes :
                        /\ attributes[i].type = t
                        /\ \A j \in DOMAIN attributes :
                              attributes[j].type = t => j <= i
        IN attributes[last]]

DictGet(d, k, default) == IF k \in DOMAIN d THEN d[k] ELSE default

\* variants of ParseDocument: the video test made first; the video branch
\* missing; the final else missing
ParseDocument_videoFirst(client, media, l) ==
    LET doc == media.document IN
    IF doc.type = "Document" THEN
        LET attributes == AttributeDict(doc.attributes) IN
        IF "DocumentAttributeVideo" \in DOMAIN attributes THEN
            LET video_attributes == DictGet(attributes, "DocumentAttributeVideo", None)
            IN [l EXCEPT !.video = Video_parse(client, doc, video_attributes, None,
                                               media.ttl_seconds),
                         !.media_type = Str("VIDEO")]
        ELSE IF "DocumentAttributeAnimated" \in DOMAIN attributes THEN
            LET video_attributes == DictGet(attributes, "DocumentAttributeVideo", None)
            IN [l EXCEPT !.animation = Animation_parse(client, doc, video_attributes, None),
                         !.media_type = Str("ANIMATION")]
        ELSE [l EXCEPT !.media_type = None]
    ELSE l

ParseDocument_noVideo(client, media, l) ==
    LET doc == media.document IN
    IF doc.type = "Document" THEN
        LET attributes == AttributeDict(doc.attributes) IN
        IF "DocumentAttributeAnimated" \in DOMAIN attributes THEN
            LET video_attributes == DictGet(attributes, "DocumentAttributeVideo", None)
            IN [l EXCEPT !.animation = Animation_parse(client, doc, video_attributes, None),
                         !.media_type = Str("ANIMATION")]
        ELSE [l EXCEPT !.media_type = None]
    ELSE l

ParseDocument_noElse(client, media, l) ==
    LET doc == media.document IN
    IF doc.type = "Document" THEN
        LET attributes == AttributeDict(doc.attributes) IN
        IF "DocumentAttributeAnimated" \in DOMAIN attributes THEN
            LET video_attributes == DictGet(attributes, "DocumentAttributeVideo", None)
            IN [l EXCEPT !.animation = Animation_parse(client, doc, video_attributes, None),
                         !.media_type = Str("ANIMATION")]
        ELSE IF "DocumentAttributeVideo" \in DOMAIN attributes THEN
            LET video_attributes == DictGet(attributes, "DocumentAttributeVideo", None)
            IN [l EXCEPT !.video = Video_parse(client, doc, video_attributes, None,
                                               media.ttl_seconds),
                         !.media_type = Str("VIDEO")]
        ELSE l
    ELSE l

ParseDocument_tagMismatch(client, media, l) ==
    LET doc == media.document IN
    IF doc.type = "Document" THEN
        LET attributes == AttributeDict(doc.attributes) IN
        IF "DocumentAttributeAnimated" \in DOMAIN attributes THEN
            LET video_attributes == DictGet(attributes, "DocumentAttributeVideo", None)
            IN [l EXCEPT !.animation = Animation_parse(client, doc, video_attributes, None),
                         !.media_type = Str("VIDEO")]
        ELSE IF "DocumentAttributeVideo" \in DOMAIN attributes THEN
            LET video_attributes == DictGet(attributes, "DocumentAttributeVideo", None)
            IN [l EXCEPT !.video = Video_parse(client, doc, video_attributes, None,
                                               media.ttl_seconds),
                         !.media_type = Str("VIDEO")]
        ELSE [l EXCEPT !.media_type = None]
    ELSE l

\* lines 163-175: a full Document is classified by its attributes
ParseDocument(client, media, l) ==
    LET doc == media.document IN
    IF doc.type = "Document" THEN
        LET attributes == AttributeDict(doc.attributes) IN
        IF "DocumentAttributeAnimated" \in DOMAIN attributes THEN
            LET video_attributes == DictGet(attributes, "DocumentAttributeVideo", None)
            IN [l EXCEPT !.animation = Animation_parse(client, doc, video_attributes, None),
                         !.media_type = Str("ANIMATION")]
        ELSE IF "DocumentAttributeVideo" \in DOMAIN attributes THEN
            LET video_attributes == DictGet(attributes, "DocumentAttributeVideo", None)
            IN [l EXCEPT !.video = Video_parse(client, doc, video_attributes, None,
                                               media.ttl_seconds),
                         !.media_type = Str("VIDEO")]
        ELSE [l EXCEPT !.media_type = None]
    ELSE l

ParseMedia_dropsTtl(client, stories, l0) ==
    LET l == [l0 EXCEPT !.animation = None, !.photo = None, !.video = None,
                        !.from_user = None, !.sender_chat = None]
        media == stories.media
    IN IF Truthy(media) THEN
           IF media.type = "MessageMediaPhoto" THEN
               [l EXCEPT !.photo = Photo_parse(client, media.photo, None),
                         !.media_type = Str("PHOTO")]
           ELSE IF media.type = "MessageMediaDocument" THEN
               ParseDocument(client, media, l)
           ELSE [l EXCEPT !.media_type = None]
       ELSE l

ParseMedia_noElse(client, stories, l0) ==
    LET l == [l0 EXCEPT !.animation = None, !.photo = None, !.video = None,
                        !.from_user = None, !.sender_chat = None]
        media == stories.media
    IN IF Truthy(media) THEN
           IF media.type = "MessageMediaPhoto" THEN
               [l EXCEPT !.photo = Photo_parse(client, media.photo, media.ttl_seconds),
                         !.media_type = Str("PHOTO")]
           ELSE IF media.type = "MessageMediaDocument" THEN
               ParseDocument(client, media, l)
           ELSE l
       ELSE l

\* lines 151-177: the locals after media classification; media_type stays
\* unbound on the paths that do not assign it
ParseMedia(client, stories, l0) ==
    LET l == [l0 EXCEPT !.animation = None, !.photo = None, !.video = None,
                        !.from_user = None, !.sender_chat = None]
        media == stories.media
    IN IF Truthy(media) THEN
           IF media.type = "MessageMediaPhoto" THEN
               [l EXCEPT !.photo = Photo_parse(client, media.photo, media.ttl_seconds),
                         !.media_type = Str("PHOTO")]
           ELSE IF media.type = "MessageMediaDocument" THEN
               ParseDocument(client, media, l)
           ELSE [l EXCEPT !.media_type = None]
       ELSE l

\* the descriptor builder called by lines 158, 168, 172, if any
MediaCalls(l) ==
    IF l.photo # None THEN <<CallRec("Photo._parse", <<>>)>>
    ELSE IF l.animation # None THEN <<CallRec("Animation._parse", <<>>)>>
    ELSE IF l.video # None THEN <<CallRec("Video._parse", <<>>)>>
    ELSE <<>>

Construct_swapsFlags(client, stories, l) ==
    IF l.media_type = Unbound THEN Raise(UnboundLocalError)
    ELSE Return(StoryObject(client, stories.id, l.from_user, l.sender_chat,
            timestamp_to_datetime(stories.date),
            timestamp_to_datetime(stories.expire_date),
            l.media_type, stories.noforwards, l.animation, l.photo, l.video,
            stories.edited, stories.pinned, stories.public, stories.contacts,
            stories.close_friends, stories.selected_contacts, stories.caption,
            IF Truthy(l.entities) THEN l.entities ELSE None,
            StoryViews_parse(stories.views)))

\* lines 185-206: evaluating media=media_type raises UnboundLocalError when
\* no branch assigned it
Construct(client, stories, l) ==
    IF l.media_type = Unbound THEN Raise(UnboundLocalError)
    ELSE Return(StoryObject(
            client,
            stories.id,
            l.from_user,
            l.sender_chat,
            timestamp_to_datetime(stories.date),
            timestamp_to_datetime(stories.expire_date),
            l.media_type,
            stories.noforwards,
            l.animation,
            l.photo,
            l.video,
            stories.edited,
            stories.pinned,
            stories.public,
            stories.close_friends,
            stories.contacts,
            stories.selected_contacts,
            stories.caption,
            IF Truthy(l.entities) THEN l.entities ELSE None,
            StoryViews_parse(stories.views)))

ConstructCalls(o) ==
    IF o.kind = "return" THEN <<CallRec("Story", <<>>)>> ELSE <<>>

MarkerDecoder_swapped(stories) ==
    IF stories.type = "StoryItemSkipped" THEN "StoryDeleted._parse"
    ELSE IF stories.type = "StoryItemDeleted" THEN "StorySkipped._parse"
    ELSE "none"

\* lines 145-148: which marker decoder, if any, the record is handed to
MarkerDecoder(stories) ==
    IF stories.type = "StoryItemSkipped" THEN "StorySkipped._parse"
    ELSE IF stories.type = "StoryItemDeleted" THEN "StoryDeleted._parse"
    ELSE "none"

\* lines 178-183: how the author is resolved
AuthorCall_userIsSelf(peer) ==
    IF peer.type = "PeerChannel" THEN "get_chat" ELSE "me"

AuthorCall(peer) ==
    IF peer.type = "PeerChannel" THEN "get_chat"
    ELSE IF peer.type = "InputPeerSelf" THEN "me"
    ELSE "get_users"

AssignAuthor_both(l, how, author) ==
    [l EXCEPT !.sender_chat = author, !.from_user = author]

AssignAuthor_user(l, how, author) == [l EXCEPT !.from_user = author]

\* lines 179, 181, 183: the local the resolved author is assigned to
AssignAuthor(l, how, author) ==
    IF how = "get_chat" THEN [l EXCEPT !.sender_chat = author]
    ELSE [l EXCEPT !.from_user = author]

(* ------------------------------ actions -------------------------------- *)
NoSFrame == [method |-> "", args |-> <<>>]

InitDecode ==
    /\ pc = "idle"
    /\ frame = NoFrame
    /\ locals = NoLocals
    /\ log = <<>>
    /\ ret = NoOutcome
    /\ outcome = NoOutcome

InitIdleShortcut ==
    /\ spc = "idle"
    /\ sframe = NoSFrame
    /\ slog = <<>>
    /\ sret = NoOutcome
    /\ sout = NoOutcome

\* an invocation as a value: what pc, frame, locals, log, ret and outcome
\* hold for the running one
CallState(p, f, l, lg, r, o) ==
    [pc |-> p, frame |-> f, locals |-> l, log |-> lg, ret |-> r, outcome |-> o]

IdleCall == CallState("idle", NoFrame, NoLocals, <<>>, NoOutcome, NoOutcome)

\* a shortcut invocation as a value: what spc, sframe, slog, sret and sout
\* hold for the running one
ShortcutState(p, f, lg, r, o) ==
    [spc |-> p, sframe |-> f, slog |-> lg, sret |-> r, sout |-> o]

IdleShortcut == ShortcutState("idle", NoSFrame, <<>>, NoOutcome, NoOutcome)

InitIdleConc ==
    /\ parked = IdleCall
    /\ cur = 1
    /\ overlap = FALSE
    /\ sparked = IdleShortcut

\* no Story has been built yet
Init ==
    /\ InitDecode
    /\ story = None
    /\ InitIdleShortcut
    /\ InitIdleConc

\* Story._parse is called and runs to its first suspension point, or to its
\* end when the peer is the self sentinel (no await on that path).
Parse(client, stories, peer) ==
    /\ pc = "idle"
    /\ frame' = [client |-> client, stories |-> stories, peer |-> peer]
    /\ ret' = NoOutcome
    /\ UNCHANGED <<svars, cvars>>
    /\ IF MarkerDecoder(stories) # "none" THEN
          /\ pc' = MarkerDecoder(stories)
          /\ log' = <<CallRec(MarkerDecoder(stories), <<client, stories, peer>>)>>
          /\ locals' = NoLocals
          /\ outcome' = NoOutcome
       ELSE
          LET l1 == [NoLocals EXCEPT !.entities = ParseEntities(client, stories)]
              l2 == ParseMedia(client, stories, l1)
              pre == EntityCalls(client, stories) \o MediaCalls(l2)
          IN IF AuthorCall(peer) = "get_chat" THEN
                 /\ pc' = "get_chat"
                 /\ log' = pre \o <<CallRec("get_chat", <<client, peer.channel_id>>)>>
                 /\ locals' = l2
                 /\ outcome' = NoOutcome
             ELSE IF AuthorCall(peer) = "me" THEN
                 LET l3 == AssignAuthor(l2, "me", Me(client))
                     o == Construct(client, stories, l3)
                 IN /\ pc' = "done"
                    /\ log' = pre \o ConstructCalls(o)
                    /\ locals' = l3
                    /\ outcome' = o
             ELSE
                 /\ pc' = "get_users"
                 /\ log' = pre \o <<CallRec("get_users", <<client, peer.user_id>>)>>
                 /\ locals' = l2
                 /\ outcome' = NoOutcome

\* lines 146, 148: return await <marker decoder>
MarkerReturn(v) ==
    /\ pc \in {"StorySkipped._parse", "StoryDeleted._parse"}
    /\ pc' = "done"
    /\ ret' = Return(v)
    /\ outcome' = Return(v)
    /\ UNCHANGED <<frame, locals, log>>
    /\ UNCHANGED <<svars, cvars>>

MarkerRaise(e) ==
    /\ pc \in {"StorySkipped._parse", "StoryDeleted._parse"}
    /\ pc' = "done"
    /\ ret' = Raise(e)
    /\ outcome' = Raise(e)
    /\ UNCHANGED <<frame, locals, log>>
    /\ UNCHANGED <<svars, cvars>>

\* lines 179 / 183 resume with the looked-up author, then lines 185-206
AuthorReturn(author) ==
    /\ pc \in {"get_chat", "get_users"}
    /\ author.type = (IF pc = "get_chat" THEN "Chat" ELSE "User")
    /\ LET l3 == AssignAuthor(locals, pc, author)
           o == Construct(frame.client, frame.stories, l3)
       IN /\ locals' = l3
          /\ outcome' = o
          /\ log' = log \o ConstructCalls(o)
    /\ pc' = "done"
    /\ ret' = Return(author)
    /\ UNCHANGED frame
    /\ UNCHANGED <<svars, cvars>>

ParseAwaitRaises_swallow(e) == Return(None)

\* lines 179, 183: the awaits stand in no try block, so an error raised by
\* the awaited lookup leaves Story._parse as it is
ParseAwaitRaises(e) == Raise(e)

AuthorRaise_retry(e) ==
    /\ pc \in {"get_chat", "get_users"}
    /\ ret' = Raise(e)
    /\ UNCHANGED <<pc, frame, locals, log, outcome>>
    /\ UNCHANGED <<svars, cvars>>

\* the lookup fails: the error leaves Story._parse
AuthorRaise(e) ==
    /\ pc \in {"get_chat", "get_users"}
    /\ pc' = "done"
    /\ ret' = Raise(e)
    /\ outcome' = ParseAwaitRaises(e)
    /\ UNCHANGED <<frame, locals, log>>
    /\ UNCHANGED <<svars, cvars>>

\* the caller has taken the outcome; the invocation's frame is gone
Finish ==
    /\ pc = "done"
    /\ pc' = "idle"
    /\ frame' = NoFrame
    /\ locals' = NoLocals
    /\ log' = <<>>
    /\ ret' = NoOutcome
    /\ outcome' = NoOutcome
    /\ UNCHANGED <<svars, cvars>>

\* some caller awaits Story._parse(client, stories, peer)
ParseCall ==
    /\ pc = "idle"
    /\ \E client \in Clients, stories \in RawStories, peer \in Peers :
          Parse(client, stories, peer)

Next ==
    \/ ParseCall
    \/ \E v \in Markers : MarkerReturn(v)
    \/ \E e \in Errors : MarkerRaise(e)
    \/ \E author \in Users \cup Chats : AuthorReturn(author)
    \/ \E e \in Errors : AuthorRaise(e)
    \/ Finish

Spec == Init /\ [][Next]_vars

\* an awaited collaborator (marker decoder, get_chat, get_users) answers
Responds ==
    \/ \E v \in Markers : MarkerReturn(v)
    \/ \E e \in Errors : MarkerRaise(e)
    \/ \E author \in Users \cup Chats : AuthorReturn(author)
    \/ \E e \in Errors : AuthorRaise(e)

\* records of the calls whose end is awaited: both markers, every entity
\* list (on a record with media of another tag) and every media (on a
\* record without entities)
LiveStories ==
    {x \in RawStories :
        x.type = "StoryItem" =>
            (x.entities = <<>> \/ x.media = [type |-> "MessageMediaGeo"])}

LiveParseCall ==
    /\ pc = "idle"
    /\ \E client \in Clients, stories \in LiveStories, peer \in Peers :
          Parse(client, stories, peer)

NextLive ==
    \/ LiveParseCall
    \/ \E v \in Markers : MarkerReturn(v)
    \/ \E e \in Errors : MarkerRaise(e)
    \/ \E author \in Users \cup Chats : AuthorReturn(author)
    \/ \E e \in Errors : AuthorRaise(e)
    \/ Finish

\* Story._parse under collaborators that always answer in the end
SpecLive == Init /\ [][NextLive]_vars /\ WF_vars(Responds)

(* ------------------ two invocations of Story._parse -------------------- *)
\* records and peers of the two concurrent invocations: full records with
\* and without a descriptor, every peer
ConcMedia ==
    {m \in RawMedia : m # None /\ m.type \in {"MessageMediaGeo", "MessageMediaPhoto"}
                              /\ (m.type = "MessageMediaPhoto" => m.ttl_seconds = None)}

ConcStories == {x \in StoryItems : x.entities = <<>> /\ x.media \in ConcMedia}

ResumedFrame_sharedLocals(saved, running) == [saved EXCEPT !.locals = running.locals]

\* lines 149-155, 158-177: entities, animation, photo, video, from_user,
\* sender_chat and media_type are locals of the coroutine; a resumed
\* invocation finds its frame as it left it at the await, whatever ran since
ResumedFrame(saved, running) == saved

AtLookup(p) == p \in {"get_chat", "get_users"}

\* the event loop runs the other invocation: the running one stays at its
\* await (or has not started, or has ended) and the other one continues
Switch ==
    LET running == CallState(pc, frame, locals, log, ret, outcome)
        next == ResumedFrame(parked, running)
    IN /\ parked' = running
       /\ pc' = next.pc
       /\ frame' = next.frame
       /\ locals' = next.locals
       /\ log' = next.log
       /\ ret' = next.ret
       /\ outcome' = next.outcome
       /\ cur' = 3 - cur
       /\ overlap' = (overlap \/ (AtLookup(pc) /\ AtLookup(parked.pc)))
       /\ UNCHANGED <<svars, sparked>>

\* the invocation that is not suspended is started
ConcParseCall ==
    /\ pc = "idle"
    /\ \E client \in Clients, stories \in ConcStories, peer \in Peers :
          Parse(client, stories, peer)

NextConc ==
    \/ ConcParseCall
    \/ \E author \in Users \cup Chats : AuthorReturn(author)
    \/ \E e \in Errors : AuthorRaise(e)
    \/ Switch

SpecConc == Init /\ [][NextConc]_vars

(* ========================= delivery shortcuts ========================== *)
\* o.id, which raises AttributeError when o is None
GetAttrId_lenient(o) == IF o = None THEN None ELSE o.id

\* self.sender_chat.id: reading .id of None raises AttributeError
GetAttrId(o) == IF o = None THEN AttributeError ELSE o.id

ClientCall_otherClient(client, op, kwargs) ==
    IF \E k \in DOMAIN kwargs : kwargs[k] = AttributeError
    THEN [kind |-> "raise", value |-> AttributeError]
    ELSE [kind |-> "call", client |-> "app1", op |-> op, kwargs |-> kwargs]

\* await self._client.<op>(**kwargs); evaluating an argument may already
\* have raised, and then the client is never reached
ClientCall(client, op, kwargs) ==
    IF \E k \in DOMAIN kwargs : kwargs[k] = AttributeError
    THEN [kind |-> "raise", value |-> AttributeError]
    ELSE [kind |-> "call", client |-> client, op |-> op, kwargs |-> kwargs]

\* reply_text: parameters in declaration order (line 208)
reply_text_params ==
    <<"text", "parse_mode", "entities", "disable_web_page_preview",
    "disable_notification", "reply_to_story_id", "schedule_date",
    "protect_content", "reply_markup">>
\* required parameters supplied, optional ones at their declared defaults
reply_text_defaults ==
    [text |-> Str("given_text"), parse_mode |-> None, entities |-> None,
     disable_web_page_preview |-> None, disable_notification |-> None,
     reply_to_story_id |-> None, schedule_date |-> None,
     protect_content |-> None, reply_markup |-> None]
\* lines 277-291
reply_text(self, a) ==
    LET reply_to_story_id ==
            IF a.reply_to_story_id = None THEN self.id ELSE a.reply_to_story_id
    IN ClientCall(self._client, "send_message", [
            chat_id |-> IF Truthy(self.from_user) THEN self.from_user.id
                        ELSE GetAttrId(self.sender_chat),
            text |-> a.text,
            parse_mode |-> a.parse_mode,
            entities |-> a.entities,
            disable_web_page_preview |-> a.disable_web_page_preview,
            disable_notification |-> a.disable_notification,
            reply_to_story_id |-> reply_to_story_id,
            schedule_date |-> a.schedule_date,
            protect_content |-> a.protect_content,
            reply_markup |-> a.reply_markup])

reply_dropsText(self, a) == reply_text(self, [a EXCEPT !.text = None])

\* line 293: reply = reply_text
reply_params == reply_text_params
reply_defaults == reply_text_defaults
reply(self, a) == reply_text(self, a)

\* reply_animation: parameters in declaration order (line 295)
reply_animation_params ==
    <<"animation", "caption", "parse_mode", "caption_entities", "has_spoiler",
    "duration", "width", "height", "thumb", "file_name",
    "disable_notification", "reply_markup", "reply_to_story_id", "progress",
    "progress_args">>
\* required parameters supplied, optional ones at their declared defaults
reply_animation_defaults ==
    [animation |-> Str("given_animation"), caption |-> Str(""),
     parse_mode |-> None, caption_entities |-> None, has_spoiler |-> None,
     duration |-> PyInt(0), width |-> PyInt(0), height |-> PyInt(0),
     thumb |-> None, file_name |-> None, disable_notification |-> None,
     reply_markup |-> None, reply_to_story_id |-> None, progress |-> None,
     progress_args |-> EmptyTuple]
\* lines 416-436
reply_animation(self, a) ==
    LET reply_to_story_id ==
            IF a.reply_to_story_id = None THEN self.id ELSE a.reply_to_story_id
    IN ClientCall(self._client, "send_animation", [
            chat_id |-> IF Truthy(self.from_user) THEN self.from_user.id
                        ELSE GetAttrId(self.sender_chat),
            animation |-> a.animation,
            caption |-> a.caption,
            parse_mode |-> a.parse_mode,
            caption_entities |-> a.caption_entities,
            has_spoiler |-> a.has_spoiler,
            duration |-> a.duration,
            width |-> a.width,
            height |-> a.height,
            thumb |-> a.thumb,
            file_name |-> a.file_name,
            disable_notification |-> a.disable_notification,
            reply_to_story_id |-> reply_to_story_id,
            reply_markup |-> a.reply_markup,
            progress |-> a.progress,
            progress_args |-> a.progress_args])

\* reply_audio: parameters in declaration order (line 438)
reply_audio_params ==
    <<"audio", "caption", "parse_mode", "caption_entities", "duration",
    "performer", "title", "thumb", "file_name", "disable_notification",
    "reply_to_story_id", "reply_markup", "progress", "progress_args">>
\* required parameters supplied, optional ones at their declared defaults
reply_audio_defaults ==
    [audio |-> Str("given_audio"), caption |-> Str(""), parse_mode |-> None,
     caption_entities |-> None, duration |-> PyInt(0), performer |-> None,
     title |-> None, thumb |-> None, file_name |-> None,
     disable_notification |-> None, reply_to_story_id |-> None,
     reply_markup |-> None, progress |-> None, progress_args |-> EmptyTuple]
\* lines 555-574
reply_audio(self, a) ==
    LET reply_to_story_id ==
            IF a.reply_to_story_id = None THEN self.id ELSE a.reply_to_story_id
    IN ClientCall(self._client, "send_audio", [
            chat_id |-> IF Truthy(self.from_user) THEN self.from_user.id
                        ELSE GetAttrId(self.sender_chat),
            audio |-> a.audio,
            caption |-> a.caption,
            parse_mode |-> a.parse_mode,
            caption_entities |-> a.caption_entities,
            duration |-> a.duration,
            performer |-> a.performer,
            title |-> a.title,
            thumb |-> a.thumb,
            file_name |-> a.file_name,
            disable_notification |-> a.disable_notification,
            reply_to_story_id |-> reply_to_story_id,
            reply_markup |-> a.reply_markup,
            progress |-> a.progress,
            progress_args |-> a.progress_args])

\* reply_cached_media: parameters in declaration order (line 576)
reply_cached_media_params ==
    <<"file_id", "caption", "parse_mode", "caption_entities",
    "disable_notification", "reply_to_story_id", "reply_markup">>
\* required parameters supplied, optional ones at their declared defaults
reply_cached_media_defaults ==
    [file_id |-> Str("given_file_id"), caption |-> Str(""),
     parse_mode |-> None, caption_entities |-> None,
     disable_notification |-> None, reply_to_story_id |-> None,
     reply_markup |-> None]
\* lines 640-652
reply_cached_media(self, a) ==
    LET reply_to_story_id ==
            IF a.reply_to_story_id = None THEN self.id ELSE a.reply_to_story_id
    IN ClientCall(self._client, "send_cached_media", [
            chat_id |-> IF Truthy(self.from_user) THEN self.from_user.id
                        ELSE GetAttrId(self.sender_chat),
            file_id |-> a.file_id,
            caption |-> a.caption,
            parse_mode |-> a.parse_mode,
            caption_entities |-> a.caption_entities,
            disable_notification |-> a.disable_notification,
            reply_to_story_id |-> reply_to_story_id,
            reply_markup |-> a.reply_markup])

reply_media_group_falsy(self, a) ==
    LET reply_to_story_id ==
            IF ~Truthy(a.reply_to_story_id) THEN self.id ELSE a.reply_to_story_id
    IN ClientCall(self._client, "send_media_group", [
            chat_id |-> IF Truthy(self.from_user) THEN self.from_user.id
                        ELSE GetAttrId(self.sender_chat),
            media |-> a.media,
            disable_notification |-> a.disable_notification,
            reply_to_story_id |-> reply_to_story_id])

\* reply_media_group: parameters in declaration order (line 654)
reply_media_group_params ==
    <<"media", "disable_notification", "reply_to_story_id">>
\* required parameters supplied, optional ones at their declared defaults
reply_media_group_defaults ==
    [media |-> Str("given_media"), disable_notification |-> None,
     reply_to_story_id |-> None]
\* lines 702-710
reply_media_group(self, a) ==
    LET reply_to_story_id ==
            IF a.reply_to_story_id = None THEN self.id ELSE a.reply_to_story_id
    IN ClientCall(self._client, "send_media_group", [
            chat_id |-> IF Truthy(self.from_user) THEN self.from_user.id
                        ELSE GetAttrId(self.sender_chat),
            media |-> a.media,
            disable_notification |-> a.disable_notification,
            reply_to_story_id |-> reply_to_story_id])

\* reply_photo: parameters in declaration order (line 712)
reply_photo_params ==
    <<"photo", "caption", "parse_mode", "caption_entities", "has_spoiler",
    "ttl_seconds", "disable_notification", "reply_to_story_id",
    "reply_markup", "progress", "progress_args">>
\* required parameters supplied, optional ones at their declared defaults
reply_photo_defaults ==
    [photo |-> Str("given_photo"), caption |-> Str(""), parse_mode |-> None,
     caption_entities |-> None, has_spoiler |-> None, ttl_seconds |-> None,
     disable_notification |-> None, reply_to_story_id |-> None,
     reply_markup |-> None, progress |-> None, progress_args |-> EmptyTuple]
\* lines 814-830
reply_photo(self, a) ==
    LET reply_to_story_id ==
            IF a.reply_to_story_id = None THEN self.id ELSE a.reply_to_story_id
    IN ClientCall(self._client, "send_photo", [
            chat_id |-> IF Truthy(self.from_user) THEN self.from_user.id
                        ELSE GetAttrId(self.sender_chat),
            photo |-> a.photo,
            caption |-> a.caption,
            parse_mode |-> a.parse_mode,
            caption_entities |-> a.caption_entities,
            has_spoiler |-> a.has_spoiler,
            ttl_seconds |-> a.ttl_seconds,
            disable_notification |-> a.disable_notification,
            reply_to_story_id |-> reply_to_story_id,
            reply_markup |-> a.reply_markup,
            progress |-> a.progress,
            progress_args |-> a.progress_args])

\* reply_sticker: parameters in declaration order (line 832)
reply_sticker_params ==
    <<"sticker", "disable_notification", "reply_to_story_id", "reply_markup",
    "progress", "progress_args">>
\* required parameters supplied, optional ones at their declared defaults
reply_sticker_defaults ==
    [sticker |-> Str("given_sticker"), disable_notification |-> None,
     reply_to_story_id |-> None, reply_markup |-> None, progress |-> None,
     progress_args |-> EmptyTuple]
\* lines 912-923
reply_sticker(self, a) ==
    LET reply_to_story_id ==
            IF a.reply_to_story_id = None THEN self.id ELSE a.reply_to_story_id
    IN ClientCall(self._client, "send_sticker", [
            chat_id |-> IF Truthy(self.from_user) THEN self.from_user.id
                        ELSE GetAttrId(self.sender_chat),
            sticker |-> a.sticker,
            disable_notification |-> a.disable_notification,
            reply_to_story_id |-> reply_to_story_id,
            reply_markup |-> a.reply_markup,
            progress |-> a.progress,
            progress_args |-> a.progress_args])

reply_video_swapped(self, a) ==
    LET reply_to_story_id ==
            IF a.reply_to_story_id = None THEN self.id ELSE a.reply_to_story_id
    IN ClientCall(self._client, "send_video", [
            chat_id |-> IF Truthy(self.from_user) THEN self.from_user.id
                        ELSE GetAttrId(self.sender_chat),
            video |-> a.video,
            caption |-> a.caption,
            parse_mode |-> a.parse_mode,
            caption_entities |-> a.caption_entities,
            has_spoiler |-> a.has_spoiler,
            ttl_seconds |-> a.ttl_seconds,
            duration |-> a.duration,
            width |-> a.height,
            height |-> a.width,
            thumb |-> a.thumb,
            file_name |-> a.file_name,
            supports_streaming |-> a.supports_streaming,
            disable_notification |-> a.disable_notification,
            reply_to_story_id |-> reply_to_story_id,
            reply_markup |-> a.reply_markup,
            progress |-> a.progress,
            progress_args |-> a.progress_args])

\* reply_video: parameters in declaration order (line 925)
reply_video_params ==
    <<"video", "caption", "parse_mode", "caption_entities", "has_spoiler",
    "ttl_seconds", "duration", "width", "height", "thumb", "file_name",
    "supports_streaming", "disable_notification", "reply_to_story_id",
    "reply_markup", "progress", "progress_args">>
\* required parameters supplied, optional ones at their declared defaults
reply_video_defaults ==
    [video |-> Str("given_video"), caption |-> Str(""), parse_mode |-> None,
     caption_entities |-> None, has_spoiler |-> None, ttl_seconds |-> None,
     duration |-> PyInt(0), width |-> PyInt(0), height |-> PyInt(0),
     thumb |-> None, file_name |-> None, supports_streaming |-> True,
     disable_notification |-> None, reply_to_story_id |-> None,
     reply_markup |-> None, progress |-> None, progress_args |-> EmptyTuple]
\* lines 1055-1077
reply_video(self, a) ==
    LET reply_to_story_id ==
            IF a.reply_to_story_id = None THEN self.id ELSE a.reply_to_story_id
    IN ClientCall(self._client, "send_video", [
            chat_id |-> IF Truthy(self.from_user) THEN self.from_user.id
                        ELSE GetAttrId(self.sender_chat),
            video |-> a.video,
            caption |-> a.caption,
            parse_mode |-> a.parse_mode,
            caption_entities |-> a.caption_entities,
            has_spoiler |-> a.has_spoiler,
            ttl_seconds |-> a.ttl_seconds,
            duration |-> a.duration,
            width |-> a.width,
            height |-> a.height,
            thumb |-> a.thumb,
            file_name |-> a.file_name,
            supports_streaming |-> a.supports_streaming,
            disable_notification |-> a.disable_notification,
            reply_to_story_id |-> reply_to_story_id,
            reply_markup |-> a.reply_markup,
            progress |-> a.progress,
            progress_args |-> a.progress_args])

\* reply_video_note: parameters in declaration order (line 1079)
reply_video_note_params ==
    <<"video_note", "duration", "length", "thumb", "disable_notification",
    "reply_to_story_id", "reply_markup", "progress", "progress_args">>
\* required parameters supplied, optional ones at their declared defaults
reply_video_note_defaults ==
    [video_note |-> Str("given_video_note"), duration |-> PyInt(0),
     length |-> PyInt(1), thumb |-> None, disable_notification |-> None,
     reply_to_story_id |-> None, reply_markup |-> None, progress |-> None,
     progress_args |-> EmptyTuple]
\* lines 1173-1187
reply_video_note(self, a) ==
    LET reply_to_story_id ==
            IF a.reply_to_story_id = None THEN self.id ELSE a.reply_to_story_id
    IN ClientCall(self._client, "send_video_note", [
            chat_id |-> IF Truthy(self.from_user) THEN self.from_user.id
                        ELSE GetAttrId(self.sender_chat),
            video_note |-> a.video_note,
            duration |-> a.duration,
            length |-> a.length,
            thumb |-> a.thumb,
            disable_notification |-> a.disable_notification,
            reply_to_story_id |-> reply_to_story_id,
            reply_markup |-> a.reply_markup,
            progress |-> a.progress,
            progress_args |-> a.progress_args])

\* reply_voice: parameters in declaration order (line 1189)
reply_voice_params ==
    <<"voice", "caption", "parse_mode", "caption_entities", "duration",
    "disable_notification", "reply_to_story_id", "reply_markup", "progress",
    "progress_args">>
\* required parameters supplied, optional ones at their declared defaults
reply_voice_defaults ==
    [voice |-> Str("given_voice"), caption |-> Str(""), parse_mode |-> None,
     caption_entities |-> None, duration |-> PyInt(0),
     disable_notification |-> None, reply_to_story_id |-> None,
     reply_markup |-> None, progress |-> None, progress_args |-> EmptyTuple]
\* lines 1285-1300
reply_voice(self, a) ==
    LET reply_to_story_id ==
            IF a.reply_to_story_id = None THEN self.id ELSE a.reply_to_story_id
    IN ClientCall(self._client, "send_voice", [
            chat_id |-> IF Truthy(self.from_user) THEN self.from_user.id
                        ELSE GetAttrId(self.sender_chat),
            voice |-> a.voice,
            caption |-> a.caption,
            parse_mode |-> a.parse_mode,
            caption_entities |-> a.caption_entities,
            duration |-> a.duration,
            disable_notification |-> a.disable_notification,
            reply_to_story_id |-> reply_to_story_id,
            reply_markup |-> a.reply_markup,
            progress |-> a.progress,
            progress_args |-> a.progress_args])

delete_userFirst(self, a) ==
    ClientCall(self._client, "delete_stories", [
        channel_id |-> IF Truthy(self.from_user) THEN self.from_user.id
                      ELSE GetAttrId(self.sender_chat),
        story_ids |-> self.id])

\* delete takes no parameters (line 1302)
delete_params == <<>>
delete_defaults == <<>>
\* lines 1324-1327
delete(self, a) ==
    ClientCall(self._client, "delete_stories", [
        channel_id |-> IF Truthy(self.sender_chat) THEN self.sender_chat.id ELSE None,
        story_ids |-> self.id])

\* edit_animation: parameters in declaration order (line 1329)
edit_animation_params ==
    <<"animation">>
\* required parameters supplied, optional ones at their declared defaults
edit_animation_defaults ==
    [animation |-> Str("given_animation")]
\* lines 1359-1363
edit_animation(self, a) ==
    ClientCall(self._client, "edit_story", [
        channel_id |-> IF Truthy(self.sender_chat) THEN self.sender_chat.id ELSE None,
        story_id |-> self.id,
        animation |-> a.animation])

\* edit: parameters in declaration order (line 1365)
edit_params ==
    <<"privacy", "allowed_users", "denied_users", "allowed_chats",
    "denied_chats", "animation", "photo", "video", "caption", "parse_mode",
    "caption_entities">>
\* required parameters supplied, optional ones at their declared defaults
edit_defaults ==
    [privacy |-> None, allowed_users |-> None, denied_users |-> None,
     allowed_chats |-> None, denied_chats |-> None, animation |-> None,
     photo |-> None, video |-> None, caption |-> None, parse_mode |-> None,
     caption_entities |-> None]
\* lines 1452-1466
edit(self, a) ==
    ClientCall(self._client, "edit_story", [
        channel_id |-> IF Truthy(self.sender_chat) THEN self.sender_chat.id ELSE None,
        story_id |-> self.id,
        privacy |-> a.privacy,
        allowed_chats |-> a.allowed_chats,
        denied_chats |-> a.denied_chats,
        allowed_users |-> a.allowed_users,
        denied_users |-> a.denied_users,
        animation |-> a.animation,
        photo |-> a.photo,
        video |-> a.video,
        caption |-> a.caption,
        parse_mode |-> a.parse_mode,
        caption_entities |-> a.caption_entities])

\* edit_caption: parameters in declaration order (line 1468)
edit_caption_params ==
    <<"caption", "parse_mode", "caption_entities">>
\* required parameters supplied, optional ones at their declared defaults
edit_caption_defaults ==
    [caption |-> Str("given_caption"), parse_mode |-> None,
     caption_entities |-> None]
edit_caption_strictChannel(self, a) ==
    ClientCall(self._client, "edit_story", [
        channel_id |-> GetAttrId(self.sender_chat),
        story_id |-> self.id,
        caption |-> a.caption,
        parse_mode |-> a.parse_mode,
        caption_entities |-> a.caption_entities])

\* lines 1505-1511
edit_caption(self, a) ==
    ClientCall(self._client, "edit_story", [
        channel_id |-> IF Truthy(self.sender_chat) THEN self.sender_chat.id ELSE None,
        story_id |-> self.id,
        caption |-> a.caption,
        parse_mode |-> a.parse_mode,
        caption_entities |-> a.caption_entities])

\* edit_photo: parameters in declaration order (line 1513)
edit_photo_params ==
    <<"photo">>
\* required parameters supplied, optional ones at their declared defaults
edit_photo_defaults ==
    [photo |-> Str("given_photo")]
\* lines 1543-1547
edit_photo(self, a) ==
    ClientCall(self._client, "edit_story", [
        channel_id |-> IF Truthy(self.sender_chat) THEN self.sender_chat.id ELSE None,
        story_id |-> self.id,
        photo |-> a.photo])

\* edit_privacy: parameters in declaration order (line 1549)
edit_privacy_params ==
    <<"privacy", "allowed_users", "denied_users", "allowed_chats",
    "denied_chats">>
\* required parameters supplied, optional ones at their declared defaults
edit_privacy_defaults ==
    [privacy |-> None, allowed_users |-> None, denied_users |-> None,
     allowed_chats |-> None, denied_chats |-> None]
\* lines 1595-1603
edit_privacy(self, a) ==
    ClientCall(self._client, "edit_story", [
        channel_id |-> IF Truthy(self.sender_chat) THEN self.sender_chat.id ELSE None,
        story_id |-> self.id,
        privacy |-> a.privacy,
        allowed_chats |-> a.allowed_chats,
        denied_chats |-> a.denied_chats,
        allowed_users |-> a.allowed_users,
        denied_users |-> a.denied_users])

\* edit_video: parameters in declaration order (line 1605)
edit_video_params ==
    <<"video">>
\* required parameters supplied, optional ones at their declared defaults
edit_video_defaults ==
    [video |-> Str("given_video")]
\* lines 1635-1639
edit_video(self, a) ==
    ClientCall(self._client, "edit_story", [
        channel_id |-> IF Truthy(self.sender_chat) THEN self.sender_chat.id ELSE None,
        story_id |-> self.id,
        video |-> a.video])

export_link_chatFirst(self, a) ==
    ClientCall(self._client, "export_story_link", [
        from_id |-> IF Truthy(self.sender_chat) THEN self.sender_chat.id
                        ELSE GetAttrId(self.from_user),
        story_id |-> self.id])

\* export_link takes no parameters (line 1641)
export_link_params == <<>>
export_link_defaults == <<>>
\* lines 1664-1664
export_link(self, a) ==
    ClientCall(self._client, "export_story_link", [
        from_id |-> IF Truthy(self.from_user) THEN self.from_user.id
                        ELSE GetAttrId(self.sender_chat),
        story_id |-> self.id])

Methods ==
    {"reply_text", "reply", "reply_animation", "reply_audio",
    "reply_cached_media", "reply_media_group", "reply_photo", "reply_sticker",
    "reply_video", "reply_video_note", "reply_voice", "delete",
    "edit_animation", "edit", "edit_caption", "edit_photo", "edit_privacy",
    "edit_video", "export_link"}

ReplyMethods ==
    {"reply_text", "reply", "reply_animation", "reply_audio", "reply_cached_media",
     "reply_media_group", "reply_photo", "reply_sticker", "reply_video",
     "reply_video_note", "reply_voice"}
EditMethods ==
    {"edit", "edit_animation", "edit_caption", "edit_photo", "edit_privacy",
     "edit_video"}

Bound(m, s, a) ==
      CASE m = "reply_text" -> reply_text(s, a)
        [] m = "reply" -> reply(s, a)
        [] m = "reply_animation" -> reply_animation(s, a)
        [] m = "reply_audio" -> reply_audio(s, a)
        [] m = "reply_cached_media" -> reply_cached_media(s, a)
        [] m = "reply_media_group" -> reply_media_group(s, a)
        [] m = "reply_photo" -> reply_photo(s, a)
        [] m = "reply_sticker" -> reply_sticker(s, a)
        [] m = "reply_video" -> reply_video(s, a)
        [] m = "reply_video_note" -> reply_video_note(s, a)
        [] m = "reply_voice" -> reply_voice(s, a)
        [] m = "delete" -> delete(s, a)
        [] m = "edit_animation" -> edit_animation(s, a)
        [] m = "edit" -> edit(s, a)
        [] m = "edit_caption" -> edit_caption(s, a)
        [] m = "edit_photo" -> edit_photo(s, a)
        [] m = "edit_privacy" -> edit_privacy(s, a)
        [] m = "edit_video" -> edit_video(s, a)
        [] m = "export_link" -> export_link(s, a)

ParamsOf(m) ==
      CASE m = "reply_text" -> reply_text_params
        [] m = "reply" -> reply_params
        [] m = "reply_animation" -> reply_animation_params
        [] m = "reply_audio" -> reply_audio_params
        [] m = "reply_cached_media" -> reply_cached_media_params
        [] m = "reply_media_group" -> reply_media_group_params
        [] m = "reply_photo" -> reply_photo_params
        [] m = "reply_sticker" -> reply_sticker_params
        [] m = "reply_video" -> reply_video_params
        [] m = "reply_video_note" -> reply_video_note_params
        [] m = "reply_voice" -> reply_voice_params
        [] m = "delete" -> delete_params
        [] m = "edit_animation" -> edit_animation_params
        [] m = "edit" -> edit_params
        [] m = "edit_caption" -> edit_caption_params
        [] m = "edit_photo" -> edit_photo_params
        [] m = "edit_privacy" -> edit_privacy_params
        [] m = "edit_video" -> edit_video_params
        [] m = "export_link" -> export_link_params

DefaultsOf(m) ==
      CASE m = "reply_text" -> reply_text_defaults
        [] m = "reply" -> reply_defaults
        [] m = "reply_animation" -> reply_animation_defaults
        [] m = "reply_audio" -> reply_audio_defaults
        [] m = "reply_cached_media" -> reply_cached_media_defaults
        [] m = "reply_media_group" -> reply_media_group_defaults
        [] m = "reply_photo" -> reply_photo_defaults
        [] m = "reply_sticker" -> reply_sticker_defaults
        [] m = "reply_video" -> reply_video_defaults
        [] m = "reply_video_note" -> reply_video_note_defaults
        [] m = "reply_voice" -> reply_voice_defaults
        [] m = "delete" -> delete_defaults
        [] m = "edit_animation" -> edit_animation_defaults
        [] m = "edit" -> edit_defaults
        [] m = "edit_caption" -> edit_caption_defaults
        [] m = "edit_photo" -> edit_photo_defaults
        [] m = "edit_privacy" -> edit_privacy_defaults
        [] m = "edit_video" -> edit_video_defaults
        [] m = "export_link" -> export_link_defaults

(* ----------------------- arguments a caller passes --------------------- *)
ExplicitIds == {PyInt(i) : i \in 0..(MaxId + 1)}
ArgValues == {None} \cup ExplicitIds

\* every parameter given a value of its own
DistinctArgs(params) ==
    [p \in {params[i] : i \in DOMAIN params} |->
        PyInt(100 + (CHOOSE i \in DOMAIN params : params[i] = p))]

\* the calls drawn for method m: nothing optional passed, one parameter
\* passed explicitly, or all of them passed with different values
ArgSets(m) ==
    LET d == DefaultsOf(m) IN
    {d} \cup {[d EXCEPT ![p] = v] : p \in DOMAIN d, v \in ArgValues}
        \cup {DistinctArgs(ParamsOf(m))}

ClientResults == {None} \cup {[type |-> "Message", id |-> PyInt(i)] : i \in Ids}

\* Story objects as Story.__init__ accepts them: any combination of authors
ScalarsOfStory ==
    [date |-> timestamp_to_datetime(PyInt(100)),
     expire_date |-> timestamp_to_datetime(PyInt(200))]

Stories ==
    {StoryObject(c, PyInt(i), u, ch, ScalarsOfStory.date, ScalarsOfStory.expire_date,
                 None, None, None, None, None, None, None, True, None, None, None,
                 None, None, None) :
        c \in Clients, i \in Ids, u \in {None} \cup Users, ch \in {None} \cup Chats}

InitShortcut ==
    /\ InitDecode
    /\ story \in Stories
    /\ InitIdleShortcut
    /\ InitIdleConc

SelfAfter_deleted(s, m, delivered) ==
    IF m = "delete" /\ delivered.kind = "return" THEN [s EXCEPT !.id = None] ELSE s

\* lines 208-1664: no shortcut assigns an attribute of self (only __init__,
\* lines 119-137, does), whatever the client operation delivered
SelfAfter(s, m, delivered) == s

CallsAfterAwait_retry(issued, delivered) ==
    IF delivered.kind = "raise" \/ delivered.value = None
    THEN issued \o issued
    ELSE issued

\* the await of a shortcut stands in no loop and no try block: whatever it
\* delivered, the client operation is not invoked again
CallsAfterAwait(issued, delivered) == issued

\* a shortcut of the Story is called and runs up to its await
CallShortcut(m, a) ==
    /\ spc = "idle"
    /\ sframe' = [method |-> m, args |-> a]
    /\ LET r == Bound(m, story, a) IN
          IF r.kind = "raise" THEN
              /\ spc' = "done"
              /\ slog' = <<>>
              /\ sout' = Raise(r.value)
          ELSE
              /\ spc' = "await"
              /\ slog' = <<r>>
              /\ sout' = NoOutcome
    /\ sret' = NoOutcome
    /\ story' = SelfAfter(story, m, NoOutcome)
    /\ UNCHANGED <<dvars, cvars>>

\* return await self._client.<op>(...): the awaited value is returned
ReturnAwait(v) == Return(v)

\* the client operation delivers v
ClientReturn(v) ==
    /\ spc = "await"
    /\ spc' = "done"
    /\ sret' = Return(v)
    /\ sout' = ReturnAwait(v)
    /\ story' = SelfAfter(story, sframe.method, Return(v))
    /\ slog' = CallsAfterAwait(slog, Return(v))
    /\ UNCHANGED sframe
    /\ UNCHANGED <<dvars, cvars>>

ShortcutAwaitRaises_wrap(e) == Raise([type |-> "Exception", name |-> "RuntimeError"])

\* the awaits of the shortcuts stand in no try block either
ShortcutAwaitRaises(e) == Raise(e)

\* the client operation fails with e
ClientRaise(e) ==
    /\ spc = "await"
    /\ spc' = "done"
    /\ sret' = Raise(e)
    /\ sout' = ShortcutAwaitRaises(e)
    /\ story' = SelfAfter(story, sframe.method, Raise(e))
    /\ slog' = CallsAfterAwait(slog, Raise(e))
    /\ UNCHANGED sframe
    /\ UNCHANGED <<dvars, cvars>>

ShortcutFinish ==
    /\ spc = "done"
    /\ spc' = "idle"
    /\ sframe' = NoSFrame
    /\ slog' = <<>>
    /\ sret' = NoOutcome
    /\ sout' = NoOutcome
    /\ UNCHANGED story
    /\ UNCHANGED <<dvars, cvars>>

\* some caller awaits a shortcut of the Story
ShortcutCall ==
    /\ spc = "idle"
    /\ \E m \in Methods : \E a \in ArgSets(m) : CallShortcut(m, a)

NextShortcut ==
    \/ ShortcutCall
    \/ \E v \in ClientResults : ClientReturn(v)
    \/ \E e \in Errors : ClientRaise(e)
    \/ ShortcutFinish

SpecShortcut == InitShortcut /\ [][NextShortcut]_vars

\* shortcuts of the two concurrent invocations: a reply, an edit, delete
\* and export_link
ConcMethods == {"reply_photo", "edit_photo", "delete", "export_link"}

ConcArgSets(m) == {DefaultsOf(m), DistinctArgs(ParamsOf(m))}

(* ------------- shortcuts called on a Story that was decoded ------------ *)
\* the caller of Story._parse keeps the Story it was handed
Adopt ==
    /\ pc = "done"
    /\ outcome.kind = "return"
    /\ outcome.value.type = "Story"
    /\ story = None
    /\ story' = outcome.value
    /\ UNCHANGED <<dvars, cvars, spc, sframe, slog, sret, sout>>

\* the caller calls a shortcut of the Story it keeps
DecodedShortcutCall ==
    /\ spc = "idle"
    /\ story # None
    /\ \E m \in Methods : \E a \in ConcArgSets(m) : CallShortcut(m, a)

NextDecoded ==
    \/ ConcParseCall
    \/ \E author \in Users \cup Chats : AuthorReturn(author)
    \/ \E e \in Errors : AuthorRaise(e)
    \/ Adopt
    \/ DecodedShortcutCall
    \/ \E v \in ClientResults : ClientReturn(v)
    \/ \E e \in Errors : ClientRaise(e)
    \/ ShortcutFinish

SpecDecoded == Init /\ [][NextDecoded]_vars

(* ---------------- two shortcut invocations on one Story ---------------- *)
ResumedShortcut_sharedCall(saved, running) == [saved EXCEPT !.slog = running.slog]

\* lines 814-830, 1543-1547: the keyword arguments are evaluated before the
\* await and kept with the suspended coroutine; a resumed invocation finds
\* them, and the result it awaits, as it left them
ResumedShortcut(saved, running) == saved

\* the event loop runs the other shortcut invocation
SwitchShortcut ==
    LET running == ShortcutState(spc, sframe, slog, sret, sout)
        next == ResumedShortcut(sparked, running)
    IN /\ sparked' = running
       /\ spc' = next.spc
       /\ sframe' = next.sframe
       /\ slog' = next.slog
       /\ sret' = next.sret
       /\ sout' = next.sout
       /\ cur' = 3 - cur
       /\ overlap' = (overlap \/ (spc = "await" /\ sparked.spc = "await"))
       /\ UNCHANGED <<story, dvars, parked>>

\* the invocation that is not suspended is started
ConcShortcutCall ==
    /\ spc = "idle"
    /\ \E m \in ConcMethods : \E a \in ConcArgSets(m) : CallShortcut(m, a)

NextShortcutConc ==
    \/ ConcShortcutCall
    \/ \E v \in ClientResults : ClientReturn(v)
    \/ \E e \in Errors : ClientRaise(e)
    \/ SwitchShortcut

SpecShortcutConc == InitShortcut /\ [][NextShortcutConc]_vars


(* ============================== claims ================================= *)
FullDecodeReturned ==
    /\ pc = "done"
    /\ frame.stories.type = "StoryItem"
    /\ outcome.kind = "return"

\* C1: a record tagged skipped or deleted is handed to the matching marker
\* decoder with the same client, record and peer; that is the only
\* collaborator call made (no entity parse, no descriptor builder, no
\* get_chat / get_users, no Story construction), no local of the full decode
\* is computed, and what Story._parse hands back is exactly what the marker
\* decoder delivered.
C1_MarkerDispatch ==
    \A t \in {"Skipped", "Deleted"} :
        (pc # "idle" /\ frame.stories.type = "StoryItem" \o t) =>
            /\ log = <<[fn |-> "Story" \o t \o "._parse",
                        args |-> <<frame.client, frame.stories, frame.peer>>]>>
            /\ locals = NoLocals
            /\ pc \in {"Story" \o t \o "._parse", "done"}
            /\ (pc = "done" => outcome = ret /\ outcome.kind # "none")
            /\ (pc # "done" => outcome.kind = "none")

C1_Witness ==
    /\ pc = "done"
    /\ frame.stories.type = "StoryItemDeleted"
    /\ outcome.kind = "return"
    /\ outcome.value.type = "StoryDeleted"

AttrTypes(doc) == {doc.attributes[i].type : i \in DOMAIN doc.attributes}

IsDocumentStory ==
    /\ frame.stories.type = "StoryItem"
    /\ frame.stories.media.type = "MessageMediaDocument"
    /\ frame.stories.media.document.type = "Document"

\* C2: a document carrying both an animated and a video attribute decodes to
\* media ANIMATION with an animation descriptor built from the document and
\* its video attribute, and no video descriptor.
C2_AnimatedPrecedence ==
    (/\ FullDecodeReturned
     /\ IsDocumentStory
     /\ {"DocumentAttributeAnimated", "DocumentAttributeVideo"}
            \subseteq AttrTypes(frame.stories.media.document)) =>
        /\ outcome.value.type = "Story"
        /\ outcome.value.media = Str("ANIMATION")
        /\ outcome.value.animation.type = "Animation"
        /\ outcome.value.animation.document = frame.stories.media.document
        /\ outcome.value.animation.video_attributes.type = "DocumentAttributeVideo"
        /\ outcome.value.video = None
        /\ outcome.value.photo = None

C2_Witness ==
    /\ FullDecodeReturned
    /\ IsDocumentStory
    /\ frame.stories.media.document.attributes =
          << [type |-> "DocumentAttributeVideo", duration |-> 3],
             [type |-> "DocumentAttributeAnimated"] >>
    /\ outcome.value.media = Str("ANIMATION")

\* C3: a document carrying a video attribute and no animated attribute
\* decodes to media VIDEO with a video descriptor and neither an animation
\* nor a photo descriptor.
C3_VideoOnly ==
    (/\ FullDecodeReturned
     /\ IsDocumentStory
     /\ "DocumentAttributeVideo" \in AttrTypes(frame.stories.media.document)
     /\ "DocumentAttributeAnimated" \notin AttrTypes(frame.stories.media.document)) =>
        /\ outcome.value.type = "Story"
        /\ outcome.value.media = Str("VIDEO")
        /\ outcome.value.video.type = "Video"
        /\ outcome.value.video.document = frame.stories.media.document
        /\ outcome.value.animation = None
        /\ outcome.value.photo = None

C3_Witness ==
    /\ FullDecodeReturned
    /\ IsDocumentStory
    /\ AttrTypes(frame.stories.media.document) =
          {"DocumentAttributeVideo", "DocumentAttributeFilename"}
    /\ outcome.value.media = Str("VIDEO")

\* the only errors a decode of a full record may end with are those its
\* author lookup raised
NoErrorOfItsOwn == outcome.kind = "raise" => outcome = ret

C5_CaptionEntities ==
    FullDecodeReturned =>
        LET raw == frame.stories.entities
            parsed(i) == MessageEntity_parse(frame.client, raw[i], <<>>)
            kept == {i \in DOMAIN raw : parsed(i) # None}
            ce == outcome.value.caption_entities
        IN IF kept = {} THEN ce = None
           ELSE /\ ce.type = "List"
                /\ Len(ce.items) = Len(raw) - Cardinality(DOMAIN raw \ kept)
                /\ \A i \in kept :
                      ce.items[Cardinality({k \in kept : k <= i})] = parsed(i)

C5_Witness ==
    /\ FullDecodeReturned
    /\ Len(frame.stories.entities) = 3
    /\ frame.stories.entities[1].type = "MessageEntityItalic"
    /\ frame.stories.entities[2].type = "MessageEntityUnknown"
    /\ frame.stories.entities[3].type = "MessageEntityBold"
    /\ Len(outcome.value.caption_entities.items) = 2
    /\ outcome.value.caption_entities.items[1].kind = "MessageEntityItalic"
    /\ outcome.value.caption_entities.items[2].kind = "MessageEntityBold"

\* C6: after a full decode a channel peer yields a Story with sender_chat
\* set (to the chat get_chat delivered) and from_user None; a user peer or
\* the self sentinel yields from_user set and sender_chat None.
C6_AuthorByPeer ==
    FullDecodeReturned =>
        IF frame.peer.type = "PeerChannel" THEN
            /\ outcome.value.sender_chat.type = "Chat"
            /\ outcome.value.sender_chat = ret.value
            /\ outcome.value.from_user = None
        ELSE
            /\ outcome.value.from_user.type = "User"
            /\ outcome.value.sender_chat = None
            /\ frame.peer.type = "PeerUser" => outcome.value.from_user = ret.value

C6_Witness ==
    /\ FullDecodeReturned
    /\ frame.peer.type = "PeerChannel"
    /\ outcome.value.sender_chat = Chat(2)
    /\ outcome.value.from_user = None

(* ---------------------- claims on the shortcuts ------------------------ *)
\* the client operation the current shortcut invocation has invoked
Issued == slog # <<>>
TheCall == slog[1]

\* C7: every reply shortcut forwards reply_to_story_id = the Story's own id
\* when the caller passed none, and exactly the caller's value when one was
\* passed, 0 and ids of other stories included.
C7_ReplyTarget ==
    (Issued /\ sframe.method \in ReplyMethods) =>
        LET given == sframe.args.reply_to_story_id
            sent == TheCall.kwargs.reply_to_story_id
        IN /\ given = None => sent = story.id
           /\ given # None => sent = given

C7_Witness ==
    /\ Issued
    /\ sframe.method = "reply_media_group"
    /\ story.id = PyInt(1)
    /\ sframe.args.reply_to_story_id = PyInt(0)
    /\ TheCall.kwargs.reply_to_story_id = PyInt(0)

\* the keyword under which a shortcut passes its destination
DestinationKey(m) ==
    IF m \in ReplyMethods THEN "chat_id"
    ELSE IF m = "export_link" THEN "from_id"
    ELSE "channel_id"

\* C8: every reply shortcut (as chat_id) and export_link (as from_id)
\* forwards from_user.id whenever from_user is set, also when sender_chat is
\* set too; sender_chat.id is forwarded only when from_user is None.
C8_UserPrecedence ==
    (Issued /\ sframe.method \in ReplyMethods \cup {"export_link"}) =>
        LET dest == TheCall.kwargs[DestinationKey(sframe.method)]
        IN /\ story.from_user # None => dest = story.from_user.id
           /\ story.from_user = None => dest = story.sender_chat.id

C8_Witness ==
    /\ Issued
    /\ sframe.method = "export_link"
    /\ story.from_user = User(1)
    /\ story.sender_chat = Chat(2)
    /\ TheCall.kwargs.from_id = PyInt(1)

\* C9 as stated: every delivery shortcut, the edit shortcuts and delete
\* included, forwards as destination the author's user id if from_user is
\* set, else the channel id (stated for a Story that has an author).
C9_AsStated ==
    (Issued /\ (story.from_user # None \/ story.sender_chat # None)) =>
        TheCall.kwargs[DestinationKey(sframe.method)] =
            IF story.from_user # None THEN story.from_user.id
            ELSE story.sender_chat.id

\* C9 amended: the reply shortcuts and export_link forward from_user.id if
\* from_user is set, else sender_chat.id; edit, edit_animation, edit_caption,
\* edit_photo, edit_privacy, edit_video and delete forward
\* channel_id = sender_chat.id if sender_chat is set, else None, whatever
\* from_user is.
C9_Destination ==
    Issued =>
        LET dest == TheCall.kwargs[DestinationKey(sframe.method)] IN
        IF sframe.method \in EditMethods \cup {"delete"} THEN
            dest = IF story.sender_chat # None THEN story.sender_chat.id ELSE None
        ELSE
            dest = IF story.from_user # None THEN story.from_user.id
                   ELSE story.sender_chat.id

C9_Witness ==
    /\ Issued
    /\ sframe.method = "delete"
    /\ story.from_user = User(1)
    /\ story.sender_chat = None
    /\ TheCall.kwargs.channel_id = None

\* C10: every parameter of a shortcut other than reply_to_story_id reaches
\* the client operation under its own name with the value the caller gave
\* (or its declared default when omitted), and what the shortcut returns is
\* the value the client operation returned.
C10_ForwardVerbatim ==
    /\ Issued =>
          \A p \in DOMAIN sframe.args \ {"reply_to_story_id"} :
              /\ p \in DOMAIN TheCall.kwargs
              /\ TheCall.kwargs[p] = sframe.args[p]
    /\ (spc = "done" /\ sret.kind = "return") => sout = sret

C10_Witness ==
    /\ spc = "done"
    /\ sframe.method = "reply_video"
    /\ sframe.args = DistinctArgs(reply_video_params)
    /\ sout = Return([type |-> "Message", id |-> PyInt(2)])

(* ------------------- claims C11-C20: errors, invariants ---------------- *)
LogCount(fns) == Cardinality({i \in DOMAIN log : log[i].fn \in fns})

\* C11: when get_chat or get_users fails during a full decode, Story._parse
\* ends with that very error, the lookup has been called once and not again,
\* and no Story is built or returned.
C11_LookupFailurePropagates ==
    (pc = "done" /\ frame.stories.type = "StoryItem" /\ ret.kind = "raise") =>
        /\ outcome = ret
        /\ LogCount({"get_chat", "get_users"}) = 1
        /\ LogCount({"Story"}) = 0

C11_Witness ==
    /\ pc = "done"
    /\ frame.stories.type = "StoryItem"
    /\ frame.peer.type = "PeerUser"
    /\ ret = Raise([type |-> "Exception", name |-> "PeerIdInvalid"])
    /\ outcome = ret

\* C12: when the client operation a shortcut awaits fails, the shortcut ends
\* with that very error (not wrapped, not replaced) and returns no value.
C12_ClientFailurePropagates ==
    (spc = "done" /\ sret.kind = "raise") =>
        /\ sout.kind = "raise"
        /\ sout.value = sret.value

C12_Witness ==
    /\ spc = "done"
    /\ sframe.method = "delete"
    /\ sret = Raise([type |-> "Exception", name |-> "TimeoutError"])
    /\ sout = sret

NoDescriptors(v) ==
    /\ v.type = "Story"
    /\ v.media = None
    /\ v.animation = None
    /\ v.photo = None
    /\ v.video = None

\* the media shapes lines 157-175 build a descriptor for
Recognized(media) ==
    \/ media.type = "MessageMediaPhoto"
    \/ /\ media.type = "MessageMediaDocument"
       /\ media.document.type = "Document"
       /\ AttrTypes(media.document)
              \cap {"DocumentAttributeAnimated", "DocumentAttributeVideo"} # {}

\* C13: a full decode of a record with media present ends with no error of
\* the decoder's own, whatever the shape of the media (photo, document with
\* any document value, any other tag); a shape that is not recognized gives
\* a Story with media None and no descriptor.
C13_AsStated ==
    (/\ pc = "done"
     /\ frame.stories.type = "StoryItem"
     /\ Truthy(frame.stories.media)) =>
        /\ NoErrorOfItsOwn
        /\ (outcome.kind = "return" /\ ~Recognized(frame.stories.media)) =>
              NoDescriptors(outcome.value)

\* C14: a full decode of a record that carries no media ends with no error
\* of the decoder's own and returns a Story with media None and no
\* descriptor.
C14_AsStated ==
    (/\ pc = "done"
     /\ frame.stories.type = "StoryItem"
     /\ frame.stories.media = None) =>
        /\ NoErrorOfItsOwn
        /\ outcome.kind = "return" => NoDescriptors(outcome.value)

\* C15: when the media is present and tagged neither photo nor document, the
\* decode ends with no error of the decoder's own, and the Story returned has
\* media None and no animation, photo or video descriptor.
C15_OtherMediaTag ==
    (/\ pc = "done"
     /\ frame.stories.type = "StoryItem"
     /\ Truthy(frame.stories.media)
     /\ frame.stories.media.type \notin {"MessageMediaPhoto", "MessageMediaDocument"}) =>
        /\ NoErrorOfItsOwn
        /\ ret.kind # "raise" => outcome.kind = "return"
        /\ outcome.kind = "return" => NoDescriptors(outcome.value)

C15_Witness ==
    /\ FullDecodeReturned
    /\ frame.stories.media.type = "MessageMediaGeo"
    /\ NoDescriptors(outcome.value)

\* C16: every Story a full decode returns has exactly one author: from_user
\* and sender_chat are never both set and never both None, for each peer
\* type and each value the lookups and client.me deliver.
C16_ExactlyOneAuthor ==
    FullDecodeReturned =>
        (outcome.value.from_user = None) # (outcome.value.sender_chat = None)

C16_Witness ==
    /\ FullDecodeReturned
    /\ frame.peer.type = "InputPeerSelf"
    /\ outcome.value.from_user = Me(frame.client)
    /\ outcome.value.sender_chat = None

\* C17: in every Story a full decode returns, at most one of animation,
\* photo and video is set; media is PHOTO exactly when photo is set,
\* ANIMATION exactly when animation is set, VIDEO exactly when video is set,
\* and None when none of the three is set.
C17_MediaConsistent ==
    FullDecodeReturned =>
        LET v == outcome.value
            built == {f \in {"animation", "photo", "video"} : v[f] # None}
        IN /\ Cardinality(built) <= 1
           /\ (v.media = Str("PHOTO")) <=> ("photo" \in built)
           /\ (v.media = Str("ANIMATION")) <=> ("animation" \in built)
           /\ (v.media = Str("VIDEO")) <=> ("video" \in built)
           /\ (v.media = None) <=> (built = {})

C17_Witness ==
    /\ FullDecodeReturned
    /\ outcome.value.media = Str("ANIMATION")
    /\ outcome.value.animation.type = "Animation"
    /\ outcome.value.photo = None
    /\ outcome.value.video = None

\* C19: no step of a shortcut (reply_*, edit*, delete, export_link) changes
\* a field of the Story it is called on, whether the client operation it
\* forwards to returns or fails.
C19_StoryImmutable == [][story' = story]_vars

C19_Witness ==
    /\ spc = "done"
    /\ sframe.method = "edit_caption"
    /\ sret.kind = "raise"
    /\ story.sender_chat = Chat(1)
    /\ story.id = PyInt(2)

\* C20: a shortcut call invokes its client operation once: once when it is
\* suspended at its await, still once after the operation returned (an
\* empty result included) or failed, and never zero times unless evaluating
\* the arguments already failed on a Story without author.
C20_InvokedOnce ==
    /\ spc = "await" => Len(slog) = 1
    /\ spc = "done" =>
          IF sret.kind = "none"
          THEN Len(slog) = 0 /\ sout = Raise(AttributeError)
          ELSE Len(slog) = 1
    /\ (spc # "idle" /\ (story.from_user # None \/ story.sender_chat # None)) =>
          Len(slog) = 1

C20_Witness ==
    /\ spc = "done"
    /\ sframe.method = "reply_audio"
    /\ sret = Return(None)
    /\ Len(slog) = 1

\* what an invocation with arguments f hands to its caller when it runs with
\* no other invocation in flight and its lookup delivers r
Alone(f, r) ==
    IF r.kind = "raise" THEN Raise(r.value)
    ELSE LET l1 == [NoLocals EXCEPT !.entities = ParseEntities(f.client, f.stories)]
             l2 == ParseMedia(f.client, f.stories, l1)
             how == AuthorCall(f.peer)
             author == IF how = "me" THEN Me(f.client) ELSE r.value
         IN Construct(f.client, f.stories, AssignAuthor(l2, how, author))

OwnResult(c) ==
    c.pc = "done" =>
        /\ c.outcome = Alone(c.frame, c.ret)
        /\ c.outcome.kind = "return" =>
              /\ c.outcome.value._client = c.frame.client
              /\ c.outcome.value.id = c.frame.stories.id
              /\ (c.outcome.value.photo # None) =
                    (c.frame.stories.media.type = "MessageMediaPhoto")
              /\ c.frame.peer.type = "PeerChannel" =>
                    c.outcome.value.sender_chat = c.ret.value
              /\ c.frame.peer.type = "PeerUser" =>
                    c.outcome.value.from_user = c.ret.value

\* C18: when two invocations of Story._parse interleave at their lookups,
\* each hands its caller what it would hand over running alone with the
\* same arguments and the same lookup result; nothing of the other
\* invocation (client, id, descriptor, author) shows in its Story.
C18_Interleaving ==
    /\ OwnResult(CallState(pc, frame, locals, log, ret, outcome))
    /\ OwnResult(parked)

C18_Witness ==
    /\ overlap
    /\ pc = "done"
    /\ parked.pc = "done"
    /\ outcome.kind = "return"
    /\ parked.outcome.kind = "return"
    /\ frame.client # parked.frame.client
    /\ frame.stories.id # parked.frame.stories.id
    /\ frame.stories.media # parked.frame.stories.media
    /\ frame.peer.type = "PeerChannel"
    /\ parked.frame.peer.type = "PeerUser"

(* ------------------------- claims C21-C29 ------------------------------ *)
\* C21: reply is reply_text under another name: called on the same Story
\* with the same arguments it invokes send_message with the chat_id,
\* reply_to_story_id and other parameters reply_text forwards (or fails as
\* reply_text fails), and it returns what send_message delivered.
C21_ReplyAlias ==
    (sframe.method = "reply" /\ spc # "idle") =>
        LET r == reply_text(story, sframe.args) IN
        /\ IF r.kind = "raise"
           THEN slog = <<>> /\ sout = Raise(r.value)
           ELSE /\ Len(slog) = 1
                /\ TheCall = r
                /\ TheCall.op = "send_message"
                /\ TheCall.kwargs.text = sframe.args.text
        /\ (spc = "done" /\ sret.kind = "return") => sout = sret

C21_Witness ==
    /\ sframe.method = "reply"
    /\ spc = "done"
    /\ sret.kind = "return"
    /\ sret.value # None
    /\ sframe.args = DistinctArgs(reply_text_params)
    /\ TheCall.kwargs.text = sframe.args.text

\* the lookups a decode has called, with their argument
Lookups(fn) == {i \in DOMAIN log : log[i].fn = fn}

\* C22: a full decode calls at most one lookup, chosen by the peer type
\* alone: a channel peer gives one get_chat(channel_id) and no get_users,
\* the self sentinel gives neither and takes client.me, any other peer gives
\* one get_users(user_id) and no get_chat.
C22_OneLookupByPeer ==
    (pc # "idle" /\ frame.stories.type = "StoryItem") =>
        CASE frame.peer.type = "PeerChannel" ->
                /\ Cardinality(Lookups("get_chat")) = 1
                /\ Lookups("get_users") = {}
                /\ \A i \in Lookups("get_chat") :
                      log[i].args = <<frame.client, frame.peer.channel_id>>
          [] frame.peer.type = "InputPeerSelf" ->
                /\ Lookups("get_chat") = {}
                /\ Lookups("get_users") = {}
                /\ pc = "done"
                /\ outcome.kind = "return" =>
                      outcome.value.from_user = Me(frame.client)
          [] OTHER ->
                /\ Cardinality(Lookups("get_users")) = 1
                /\ Lookups("get_chat") = {}
                /\ \A i \in Lookups("get_users") :
                      log[i].args = <<frame.client, frame.peer.user_id>>

C22_Witness ==
    /\ pc = "done"
    /\ frame.stories.type = "StoryItem"
    /\ frame.peer.type = "PeerUser"
    /\ outcome.kind = "return"
    /\ Cardinality(Lookups("get_users")) = 1
    /\ Len(frame.stories.entities) = MaxEntities

\* C23: the ttl_seconds of the media is handed to the photo builder for
\* photo media and to the video builder for a document classified as video;
\* the animation builder is called without it.
C23_TtlCarried ==
    (FullDecodeReturned /\ Truthy(frame.stories.media)) =>
        LET media == frame.stories.media
            v == outcome.value
        IN /\ media.type = "MessageMediaPhoto" =>
                 /\ v.photo.type = "Photo"
                 /\ v.photo.ttl_seconds = media.ttl_seconds
           /\ v.media = Str("VIDEO") =>
                 /\ v.video.type = "Video"
                 /\ v.video.ttl_seconds = media.ttl_seconds
           /\ v.media = Str("ANIMATION") =>
                 /\ v.animation.type = "Animation"
                 /\ "ttl_seconds" \notin DOMAIN v.animation
                 /\ v.animation.document = media.document

C23_Witness ==
    /\ FullDecodeReturned
    /\ frame.stories.media.type = "MessageMediaPhoto"
    /\ frame.stories.media.ttl_seconds = PyInt(5)
    /\ outcome.value.photo.ttl_seconds = PyInt(5)

\* C24: a full decode copies every scalar of the record to the field of the
\* same meaning and to no other: id, caption, noforwards (as
\* has_protected_content), edited, pinned, public, close_friends, contacts
\* and selected_contacts are the raw values; date and expire_date are the
\* conversions of the raw date and expire_date; visibility flags are taken
\* as they come, several of them true included.
C24_ScalarsCopied ==
    FullDecodeReturned =>
        LET r == frame.stories
            v == outcome.value
        IN /\ v.id = r.id
           /\ v.caption = r.caption
           /\ v.has_protected_content = r.noforwards
           /\ v.edited = r.edited
           /\ v.pinned = r.pinned
           /\ v.public = r.public
           /\ v.close_friends = r.close_friends
           /\ v.contacts = r.contacts
           /\ v.selected_contacts = r.selected_contacts
           /\ v.date = timestamp_to_datetime(r.date)
           /\ v.date.timestamp = r.date.val
           /\ v.expire_date = timestamp_to_datetime(r.expire_date)
           /\ v.expire_date.timestamp = r.expire_date.val

C24_Witness ==
    /\ FullDecodeReturned
    /\ frame.stories.public = True
    /\ frame.stories.contacts = True
    /\ frame.stories.close_friends = False
    /\ outcome.value.public = True
    /\ outcome.value.contacts = True
    /\ outcome.value.close_friends = False
    /\ outcome.value.has_protected_content = True
    /\ outcome.value.date.timestamp = 300
    /\ outcome.value.expire_date.timestamp = 400

StoryIdKey(m) == IF m = "delete" THEN "story_ids" ELSE "story_id"

C26_NoAuthor ==
    (spc # "idle" /\ story.from_user = None /\ story.sender_chat = None) =>
        IF sframe.method \in ReplyMethods \cup {"export_link"}
        THEN /\ slog = <<>>
             /\ spc = "done"
             /\ sret = NoOutcome
             /\ sout = Raise(AttributeError)
        ELSE /\ Len(slog) = 1
             /\ TheCall.kwargs.channel_id = None
             /\ spc = "done" => sout.value # AttributeError

C26_Witness ==
    /\ spc = "done"
    /\ story.from_user = None
    /\ story.sender_chat = None
    /\ sframe.method = "reply_sticker"
    /\ slog = <<>>
    /\ sout = Raise(AttributeError)

\* what invocation c has forwarded and handed back is what its own method,
\* its own arguments, the Story and its own awaited result determine
OwnCall(c) ==
    c.spc # "idle" =>
        LET r == Bound(c.sframe.method, story, c.sframe.args) IN
        IF r.kind = "raise"
        THEN c.slog = <<>> /\ c.spc = "done" /\ c.sout = Raise(r.value)
        ELSE /\ c.slog = <<r>>
             /\ c.slog[1].client = story._client
             /\ c.sframe.method \notin ReplyMethods =>
                   c.slog[1].kwargs[StoryIdKey(c.sframe.method)] = story.id
             /\ c.sframe.method \in ReplyMethods =>
                   c.slog[1].kwargs.reply_to_story_id =
                       (IF c.sframe.args.reply_to_story_id = None THEN story.id
                        ELSE c.sframe.args.reply_to_story_id)
             /\ c.spc = "await" => c.sout = NoOutcome /\ c.sret = NoOutcome
             /\ c.spc = "done" => c.sout = c.sret /\ c.sret.kind # "none"

\* C27: a shortcut has read the Story's id and destination and built its
\* call when it suspends at its await; with two shortcuts in flight on one
\* Story, in every interleaving, each forwards what its own method and
\* arguments give on that Story and returns what its own client operation
\* delivered, never the call or the result of the other.
C27_ConcurrentShortcuts ==
    /\ OwnCall(ShortcutState(spc, sframe, slog, sret, sout))
    /\ OwnCall(sparked)

C27_Witness ==
    /\ overlap
    /\ spc = "done"
    /\ sparked.spc = "done"
    /\ sframe.method = "reply_photo"
    /\ sparked.sframe.method = "edit_photo"
    /\ sout.kind = "return"
    /\ sparked.sout.kind = "return"
    /\ sout # sparked.sout
    /\ story.from_user = User(1)
    /\ story.sender_chat = Chat(2)
    /\ slog[1].kwargs.chat_id = PyInt(1)
    /\ sparked.slog[1].kwargs.channel_id = PyInt(2)

\* C28: a Story handed back by a full decode carries the client that decoded
\* it, and every shortcut called on it afterwards invokes its operation on
\* that client and on no other.
C28_ClientBound ==
    story # None =>
        /\ story._client = frame.client
        /\ Issued => TheCall.client = frame.client

C28_Witness ==
    /\ story # None
    /\ frame.client = "app2"
    /\ spc = "done"
    /\ sframe.method = "reply_sticker"
    /\ sret.kind = "return"
    /\ TheCall.client = "app2"

\* C29: when every awaited collaborator answers in the end, every call of
\* Story._parse ends in the end, handing its caller a value (a Story or a
\* marker) or an error; the decoder never waits or loops on its own.
C29_Terminates ==
    (pc # "idle") ~> (pc = "done" /\ outcome.kind \in {"return", "raise"})

C29_Witness ==
    /\ FullDecodeReturned
    /\ Len(frame.stories.entities) = MaxEntities
    /\ frame.peer.type = "PeerChannel"
    /\ Len(log) > MaxEntities

TypeOK == pc \in {"idle", "StorySkipped._parse", "StoryDeleted._parse",
                  "get_chat", "get_users", "done"}

====
